---- MODULE Spec2Model ----
(***************************************************************************)
(* Model of the CoAP server event loop of src/src/server.rs:               *)
(* Server::run, Server::dispatch_msg, CoAPServer::poll_next,               *)
(* CoAPServer::send and CoAPServer::stop.                                  *)
(*                                                                         *)
(* The Observer (super::observer) and the Codec (super::message) are not   *)
(* part of the source file; the observer is modelled by what the           *)
(* specification says about it: its filter answers admit / consumed and    *)
(* may put items on the outbound channel, and so may its timer handler.    *)
(***************************************************************************)
EXTENDS Integers, Sequences, FiniteSets, TLC

\* ------------------------------------------------------------------ bounds
MaxDatagrams == 2
MaxEnqueued == 2
MaxSendFailures == 1
MaxCalls == 2

\* ------------------------------------------------------------ value spaces
Peers == {"p1", "p2"}
Tokens == {<<>>, <<81>>}
Payloads == {"echo"}

\* The peers the observer's timer handler notifies.
Subscribers == {"p2"}

\* The message of a CoapResponse, and Option<CoapResponse> as a sequence of
\* at most one response: None is the empty one.
Responses == [payload : Payloads, token : Tokens]
None == <<>>
Some(r) == <<r>>

\* What the handler may return for a request: None, or the response prepared
\* for the request (it carries the request's token) with a payload filled in.
HandlerReturns(request) ==
    {None} \cup {Some([payload |-> p, token |-> request.token]) : p \in Payloads}

\* What the socket stream can yield: a decoded packet with its peer, a
\* datagram the codec fails to decode, or an I/O error of the receive.
\* The requests are those of the tests: a client that sets a token, the same
\* client without one, and a second client without one.
OkEvents == {[kind |-> "ok", addr |-> "p1", token |-> <<81>>],
             [kind |-> "ok", addr |-> "p1", token |-> <<>>],
             [kind |-> "ok", addr |-> "p2", token |-> <<>>]}
ErrEvents == {[kind |-> "malformed", addr |-> "p1", token |-> <<>>],
              [kind |-> "ioerr", addr |-> "p1", token |-> <<>>]}
Events == OkEvents \cup ErrEvents

VARIABLES
    pc,             \* where run is: "idle", "select", "handler", "returned"
    handler,        \* Server.handler: "None" or "Some"
    is_terminated,  \* CoAPServer.is_terminated
    receiver,       \* CoAPServer.receiver: the outbound channel, oldest first
    socket_in,      \* datagrams and errors the socket has ready, oldest first
    pending,        \* handler futures that were called and have not completed
    result,         \* what run returned: "none" (running), "Ok", "Err"
    arrived,        \* history: every event the socket ever had, by id
    received,       \* history: events the stream yielded as Message::Received
    errors,         \* history: events the stream yielded as Err
    filtered,       \* history: requests given to observer.request_handler
    invoked,        \* history: requests the handler was called with
    replies,        \* history: what each completed handler call returned
    enqueued,       \* history: number of items ever put on the channel
    sent,           \* history: frames passed to the socket send, in order
    obs_terminated, \* whether the observer stream reports terminated
    put,            \* history: the items ever put on the channel, in order
    local_addr,     \* the address the socket is bound to
    memberships,    \* the multicast groups the socket has joined
    mc_calls        \* history: how many multicast calls were made, and the last

vars == <<pc, handler, is_terminated, receiver, socket_in, pending, result,
          arrived, received, errors, filtered, invoked, replies, enqueued,
          sent, obs_terminated, put, local_addr, memberships, mc_calls>>

\* The state of the multicast setup, untouched by the event loop.
mcvars == <<local_addr, memberships, mc_calls>>

\* --------------------------------------------------------------- helpers
Failures == Cardinality({i \in 1..Len(sent) : ~sent[i].ok})

\* mpsc::UnboundedReceiver yields the oldest item of the channel.
DequeueNewest(q) == [item |-> q[Len(q)], rest |-> SubSeq(q, 1, Len(q) - 1)]
DequeueKeeping(q) == [item |-> Head(q), rest |-> q]
Dequeue(q) == [item |-> Head(q), rest |-> Tail(q)]

\* The observer puts n notifications on the channel through its MessageSender.
RECURSIVE Enqueue(_, _, _, _)
Enqueue(q, n, from, addr) ==
    IF n = 0 THEN q
    ELSE Enqueue(Append(q, [msg |-> [kind |-> "notification", n |-> from + 1],
                            addr |-> addr]),
                 n - 1, from + 1, addr)

\* The select arms of run are taken only between two awaits of the loop body:
\* dispatch_msg awaits the handler before run selects again.
LoopReadySpawned == pc \in {"select", "handler"}
LoopReady == pc = "select"

\* The server arm of select! is polled unless the stream reports terminated.
ServerArmIgnoringStop == LoopReady
ServerArm == LoopReady /\ ~is_terminated

\* The observer arm of select! is polled unless the observer stream reports
\* terminated.
ObserverArmUnawaited == ~obs_terminated /\ pc \in {"select", "handler"}
ObserverArm == LoopReady /\ ~obs_terminated

\* poll_next polls the channel first and yields NeedSend when it has an item.
ChannelReadyAfterSocket == receiver # <<>> /\ socket_in # <<>>
ChannelReady == receiver # <<>>

\* poll_next polls the socket only when the channel gave no item.
SocketPolledAlways == TRUE
SocketPolled == receiver = <<>>

\* let filtered = !self.observer.request_handler(&request).await;
IsFilteredInverted(admit) == admit
IsFilteredNever(admit) == FALSE
IsFiltered(admit) == ~admit

\* poll_next: Some(Ok(message)) becomes Message::Received, Some(Err(e)) stays Err.
IsDecodedAlways(ev) == TRUE
IsDecoded(ev) == ev.kind = "ok"

\* (response.message, addr): the frame dispatch_msg sends for a response.
ResponseFrameFixedAddr(response, addr) == [msg |-> response, addr |-> "p1"]
ResponseFrame(response, addr) == [msg |-> response, addr |-> addr]

\* The loop body is done: run selects again, unless a handler future is
\* still awaited.
Resume ==
    /\ pc' = IF pending' = {} THEN "select" ELSE "handler"
    /\ result' = result

\* The ? after a send: an error of the send is returned out of run.
PropagateIgnored(ok) == Resume
Propagate(ok) ==
    IF ok
    THEN Resume
    ELSE /\ pc' = "returned"
         /\ result' = "Err"

\* CoAPServer::send: hands one frame to the socket; the send succeeds or fails.
\* For a response, waiting records how many items the channel held at that
\* moment.
Send(frame, origin, req, ok) ==
    sent' = Append(sent, [frame |-> frame, origin |-> origin, req |-> req,
                          ok |-> ok,
                          waiting |-> IF origin = "response"
                                      THEN Len(receiver') ELSE 0])

\* dispatch_msg, Some(response): the response is sent on the socket at once.
RespondThroughChannel(frame, req, ok) ==
    /\ receiver' = Append(receiver, frame)
    /\ sent' = sent
    /\ Resume
Respond(frame, req, ok) ==
    /\ receiver' = receiver
    /\ Send(frame, "response", req, ok)
    /\ Propagate(ok)

\* dispatch_msg, None: nothing is sent.
NoResponseEmptyAck(request) ==
    /\ receiver' = receiver
    /\ Send([msg |-> [payload |-> "", token |-> request.token],
             addr |-> request.addr], "response", request.id, TRUE)
    /\ Resume
NoResponse(request) ==
    /\ receiver' = receiver
    /\ sent' = sent
    /\ Resume

\* run, Err(e): the error is logged and the loop goes on.
SurfaceSelectError ==
    /\ pc' = "returned"
    /\ result' = "Err"
LogSelectError ==
    /\ pc' = pc
    /\ result' = result

\* ---------------------------------------------------------------- Init
\* IpAddr::V4 and IpAddr::V6, by octets and by 16-bit groups.
V4(a, b, c, d) == [fam |-> "V4", ip |-> <<a, b, c, d>>]
V6(a, b, c, d, e, f, g, h) == [fam |-> "V6", ip |-> <<a, b, c, d, e, f, g, h>>]

\* No multicast call was made yet.
NoCall == [op |-> "none", addr |-> V4(0, 0, 0, 0), segment |-> 0,
           requested |-> {}, failed |-> FALSE, outcome |-> "ok"]

\* Server::new: the channel is empty, no handler, the stream not terminated.
ServerInit ==
    /\ pc = "idle"
    /\ handler = "None"
    /\ is_terminated = FALSE
    /\ receiver = <<>>
    /\ socket_in = <<>>
    /\ pending = {}
    /\ result = "none"
    /\ arrived = <<>>
    /\ received = <<>>
    /\ errors = <<>>
    /\ filtered = <<>>
    /\ invoked = <<>>
    /\ replies = <<>>
    /\ enqueued = 0
    /\ sent = <<>>
    /\ obs_terminated = FALSE
    /\ put = <<>>
    /\ memberships = {}
    /\ mc_calls = [count |-> 0, last |-> NoCall]

\* The server of the tests, bound to 127.0.0.1.
Init ==
    /\ ServerInit
    /\ local_addr = V4(127, 0, 0, 1)

\* --------------------------------------------------------------- actions
\* Server::run is called (again after it returned): installs the handler and
\* enters the loop.
Run ==
    /\ pc \in {"idle", "returned"}
    /\ handler' = "Some"
    /\ pc' = "select"
    /\ result' = "none"
    /\ UNCHANGED <<is_terminated, receiver, socket_in, pending, arrived,
                   received, errors, filtered, invoked, replies, enqueued, sent>>
    /\ UNCHANGED <<obs_terminated, put, mcvars>>

\* CoAPServer::stop; run borrows the server mutably, so stop can only be
\* called while run is not executing.
Stop ==
    /\ pc \in {"idle", "returned"}
    /\ ~is_terminated
    /\ is_terminated' = TRUE
    /\ UNCHANGED <<pc, handler, receiver, socket_in, pending, result, arrived,
                   received, errors, filtered, invoked, replies, enqueued,
                   sent>>
    /\ UNCHANGED <<obs_terminated, put, mcvars>>

\* The network delivers a datagram (or the socket an error) to the socket.
Arrive ==
    /\ Len(arrived) < MaxDatagrams
    /\ \E ev \in Events :
         LET datagram == [id |-> Len(arrived) + 1, kind |-> ev.kind,
                          addr |-> ev.addr, token |-> ev.token]
         IN /\ socket_in' = Append(socket_in, datagram)
            /\ arrived' = Append(arrived, datagram)
    /\ UNCHANGED <<pc, handler, is_terminated, receiver, pending, result,
                   received, errors, filtered, invoked, replies, enqueued,
                   sent>>
    /\ UNCHANGED <<obs_terminated, put, mcvars>>

\* poll_next yields Message::NeedSend when the channel has an item; run sends it.
NeedSend ==
    /\ ServerArm
    /\ ChannelReady
    /\ \E ok \in BOOLEAN :
         /\ ok \/ Failures < MaxSendFailures
         /\ receiver' = Dequeue(receiver).rest
         /\ Send(Dequeue(receiver).item, "queue", 0, ok)
         /\ pending' = pending
         /\ Propagate(ok)
    /\ UNCHANGED <<handler, is_terminated, socket_in, arrived, received,
                   errors, filtered, invoked, replies, enqueued>>
    /\ UNCHANGED <<obs_terminated, put, mcvars>>

\* poll_next yields Message::Received when the channel is empty and the socket
\* has a decoded datagram; run calls dispatch_msg, which asks the observer and
\* then calls the handler.
Received ==
    /\ ServerArm
    /\ SocketPolled
    /\ socket_in # <<>>
    /\ IsDecoded(Head(socket_in))
    /\ LET ev == Head(socket_in)
           request == [id |-> ev.id, addr |-> ev.addr, token |-> ev.token]
       IN /\ socket_in' = Tail(socket_in)
          /\ received' = Append(received, ev)
          /\ \E admit \in BOOLEAN, n \in 0..1 :
               /\ enqueued + n <= MaxEnqueued
               /\ receiver' = Enqueue(receiver, n, enqueued, ev.addr)
               /\ put' = Enqueue(put, n, enqueued, ev.addr)
               /\ enqueued' = enqueued + n
               /\ filtered' = Append(filtered, [req |-> request, admit |-> admit])
               /\ IF IsFiltered(admit) \/ handler = "None"
                  THEN /\ UNCHANGED <<invoked, pending, pc>>
                  ELSE /\ invoked' = Append(invoked, request)
                       /\ pending' = pending \cup {request}
                       /\ pc' = "handler"
    /\ UNCHANGED <<handler, is_terminated, result, arrived, errors, replies,
                   sent>>
    /\ UNCHANGED <<obs_terminated, mcvars>>

\* poll_next yields Err; run logs it and selects again.
SelectError ==
    /\ ServerArm
    /\ SocketPolled
    /\ socket_in # <<>>
    /\ ~IsDecoded(Head(socket_in))
    /\ socket_in' = Tail(socket_in)
    /\ errors' = Append(errors, Head(socket_in))
    /\ LogSelectError
    /\ UNCHANGED <<handler, is_terminated, receiver, pending,
                   arrived, received, filtered, invoked, replies, enqueued,
                   sent>>
    /\ UNCHANGED <<obs_terminated, put, mcvars>>

\* The handler's future completes; dispatch_msg sends the response, if any.
HandlerComplete ==
    /\ pc = "handler"
    /\ \E request \in pending :
         \E ret \in HandlerReturns(request), ok \in BOOLEAN :
           /\ ok \/ (ret # None /\ Failures < MaxSendFailures)
           /\ pending' = pending \ {request}
           /\ replies' = Append(replies, [req |-> request, ret |-> ret])
           /\ IF ret = None
              THEN NoResponse(request)
              ELSE Respond(ResponseFrame(ret[1], request.addr), request.id, ok)
    /\ UNCHANGED <<handler, is_terminated, socket_in, arrived,
                   received, errors, filtered, invoked, enqueued>>
    /\ UNCHANGED <<obs_terminated, put, mcvars>>

\* The observer arm of select!: the timer fired and timer_handler runs; it may
\* put a notification on the channel.
TimerFire ==
    /\ ObserverArm
    /\ \E to \in Subscribers :
         /\ enqueued + 1 <= MaxEnqueued
         /\ receiver' = Enqueue(receiver, 1, enqueued, to)
         /\ put' = Enqueue(put, 1, enqueued, to)
         /\ enqueued' = enqueued + 1
    /\ UNCHANGED <<pc, handler, is_terminated, socket_in, pending, result,
                   arrived, received, errors, filtered, invoked, replies,
                   sent>>
    /\ UNCHANGED <<obs_terminated, mcvars>>

\* The observer stream starts to report terminated.
ObserverTerminate ==
    /\ pc # "handler"
    /\ ~obs_terminated
    /\ obs_terminated' = TRUE
    /\ UNCHANGED <<pc, handler, is_terminated, receiver, socket_in, pending,
                   result, arrived, received, errors, filtered, invoked,
                   replies, enqueued, sent, put, mcvars>>

\* select!'s complete arm: every stream of the select reports terminated; run
\* breaks out of the loop and returns Ok(()).
AllTerminatedEither == is_terminated \/ obs_terminated
AllTerminated == is_terminated /\ obs_terminated

Complete ==
    /\ LoopReady
    /\ AllTerminated
    /\ pc' = "returned"
    /\ result' = "Ok"
    /\ UNCHANGED <<handler, is_terminated, receiver, socket_in, pending,
                   arrived, received, errors, filtered, invoked, replies,
                   enqueued, sent, obs_terminated, put, mcvars>>

Next ==
    \/ Run
    \/ Stop
    \/ Arrive
    \/ NeedSend
    \/ Received
    \/ SelectError
    \/ HandlerComplete
    \/ TimerFire
    \/ ObserverTerminate
    \/ Complete

Spec == Init /\ [][Next]_vars


\* ------------------------------------------------------- multicast setup
\* assert!(segment <= 0xf)
MaxSegment == 15

\* The u8 segments tried: every valid one and the first invalid one.
Segments == 0..(MaxSegment + 1)

\* The addresses the tests bind the server to.
BoundAddrs == {V4(127, 0, 0, 1), V4(0, 0, 0, 0), V6(0, 0, 0, 0, 0, 0, 0, 0)}

\* Addresses given to join_multicast: groups of both families and one address
\* of each family that is no multicast address.
GroupInputs == {V4(224, 0, 1, 187), V4(239, 255, 0, 1), V4(127, 0, 0, 1),
                V6(65282, 0, 0, 0, 0, 0, 0, 253), V6(65285, 0, 0, 0, 0, 0, 1, 3),
                V6(0, 0, 0, 0, 0, 0, 0, 1)}

\* IpAddr::is_multicast: 224.0.0.0/4 and ff00::/8.
IsMulticast(addr) ==
    IF addr.fam = "V4"
    THEN addr.ip[1] \in 224..239
    ELSE addr.ip[1] \div 256 = 255

\* enable_all_coap: the AllCoAP group of the socket's family.
AllCoapV6NoSegment(segment) == V6(65280, 0, 0, 0, 0, 0, 0, 253)
AllCoapV6(segment) == V6((65280 + segment) % 65536, 0, 0, 0, 0, 0, 0, 253)

AllCoapV4 == V4(224, 0, 1, 187)

AllCoap(local, segment) ==
    IF local.fam = "V4" THEN AllCoapV4 ELSE AllCoapV6(segment)

\* join_multicast joins only a group of the socket's own family.
SameFamilyAlways(local, addr) == TRUE
SameFamily(local, addr) == local.fam = addr.fam

\* The interface of the join: the bound address for IPv4, index 0 for IPv6.
JoinInterface(local, addr) == IF addr.fam = "V4" THEN local.ip ELSE <<0>>

\* .unwrap() on the result of the socket's join: a failure panics.
JoinOutcomeSwallowed(ok) == "ok"
JoinOutcome(ok) == IF ok THEN "ok" ELSE "panic"

\* Server::join_multicast(addr, segment), called as op; ok tells whether the
\* socket's join succeeds.
JoinEffect(op, addr, segment, ok) ==
    LET join == [group |-> addr, iface |-> JoinInterface(local_addr, addr)]
        call == [op |-> op, addr |-> addr, segment |-> segment]
    IN IF ~IsMulticast(addr) \/ segment > MaxSegment
       THEN /\ memberships' = memberships
            /\ mc_calls' = [count |-> mc_calls.count + 1,
                            last |-> call @@ [requested |-> {}, failed |-> FALSE,
                                              outcome |-> "panic"]]
       ELSE IF SameFamily(local_addr, addr)
       THEN /\ memberships' = IF ok THEN memberships \cup {join} ELSE memberships
            /\ mc_calls' = [count |-> mc_calls.count + 1,
                            last |-> call @@ [requested |-> {join}, failed |-> ~ok,
                                              outcome |-> JoinOutcome(ok)]]
       ELSE /\ memberships' = memberships
            /\ mc_calls' = [count |-> mc_calls.count + 1,
                            last |-> call @@ [requested |-> {}, failed |-> FALSE,
                                              outcome |-> "ok"]]

\* A panic unwinds the caller; no further call is made on this server.
CanCall == mc_calls.count < MaxCalls /\ mc_calls.last.outcome # "panic"

loopvars == <<pc, handler, is_terminated, receiver, socket_in, pending, result,
              arrived, received, errors, filtered, invoked, replies, enqueued,
              sent, obs_terminated, put>>

EnableAllCoap ==
    /\ pc = "idle"
    /\ CanCall
    /\ \E segment \in Segments, ok \in BOOLEAN :
         JoinEffect("enable_all_coap", AllCoap(local_addr, segment), segment, ok)
    /\ UNCHANGED <<loopvars, local_addr>>

JoinMulticast ==
    /\ pc = "idle"
    /\ CanCall
    /\ \E addr \in GroupInputs, segment \in {0, MaxSegment, MaxSegment + 1},
          ok \in BOOLEAN :
         JoinEffect("join_multicast", addr, segment, ok)
    /\ UNCHANGED <<loopvars, local_addr>>

\* The setup phase of a server: constructed on one of the bound addresses,
\* then configured by multicast calls before run.
InitMulticast ==
    /\ ServerInit
    /\ local_addr \in BoundAddrs

NextMulticast ==
    \/ EnableAllCoap
    \/ JoinMulticast

MulticastSpec == InitMulticast /\ [][NextMulticast]_vars

\* ------------------------------------------------- operators for the claims
Last(s) == s[Len(s)]

\* The handler call of this step completed (one more entry in replies).
Replied == Len(replies') = Len(replies) + 1

\* The stream yielded Err in this step (one more entry in errors).
Erred == Len(errors') = Len(errors) + 1

\* A frame was passed to the socket send in this step.
SendCalled == Len(sent') = Len(sent) + 1

\* The events the stream has taken from the socket so far.
Consumed == {arrived[i] : i \in 1..(Len(arrived) - Len(socket_in))}

RequestOf(ev) == [id |-> ev.id, addr |-> ev.addr, token |-> ev.token]

\* Indices of sent that are the response to request id.
ResponsesTo(id) ==
    {i \in 1..Len(sent) : sent[i].origin = "response" /\ sent[i].req = id}

\* The frames taken from the channel and passed to the socket send, in order.
QueueSends == SelectSeq(sent, LAMBDA f : f.origin = "queue")

\* Position of request id in the order the loop received the datagrams.
RecvIndex(id) == CHOOSE i \in 1..Len(received) : received[i].id = id

\* C1: every request the observer admits is given to the handler exactly once,
\* as the request built from the received datagram and its peer address; the
\* handler is never called twice for a datagram nor for one not received.
C1_HandlerOncePerAdmitted ==
    /\ \A i \in 1..Len(filtered) :
         filtered[i].admit =>
           Cardinality({j \in 1..Len(invoked) :
                          invoked[j].id = filtered[i].req.id}) = 1
    /\ \A j, k \in 1..Len(invoked) : invoked[j].id = invoked[k].id => j = k
    /\ \A j \in 1..Len(invoked) :
         \E i \in 1..Len(received) : invoked[j] = RequestOf(received[i])

C1_Witness ==
    /\ Len(invoked) = 2
    /\ \E i \in 1..Len(filtered) : filtered[i].admit
    /\ pending = {}

\* C2: at most one handler call is in flight, and while it is pending the
\* loop has taken no datagram after the one being handled.
C2_OneHandlerInFlight ==
    /\ Cardinality(pending) <= 1
    /\ pending # {} =>
         /\ pc = "handler"
         /\ received # <<>>
         /\ pending = {RequestOf(Last(received))}
         /\ Last(invoked) = RequestOf(Last(received))

C2_Witness ==
    /\ pending # {}
    /\ socket_in # <<>>
    /\ Head(socket_in).kind = "ok"
    /\ Len(received) = 1

\* C3: the channel is FIFO: the items passed to the socket send, followed by
\* the items still on the channel, are the items in the order they were
\* enqueued (item n is the n-th item ever enqueued).
C3_OutboundFifo ==
    /\ Len(QueueSends) + Len(receiver) = enqueued
    /\ \A i \in 1..Len(QueueSends) : QueueSends[i].frame.msg.n = i
    /\ \A k \in 1..Len(receiver) : receiver[k].msg.n = Len(QueueSends) + k

C3_Witness ==
    /\ Len(QueueSends) >= 2
    /\ received # <<>>

C5_ResponsesInArrivalOrder ==
    \A i, j \in 1..Len(sent) :
      (/\ sent[i].origin = "response"
       /\ sent[j].origin = "response"
       /\ sent[i].frame.addr = sent[j].frame.addr
       /\ RecvIndex(sent[i].req) < RecvIndex(sent[j].req)) => i < j

C5_Witness ==
    \E i, j \in 1..Len(sent) :
      /\ i < j
      /\ sent[i].origin = "response"
      /\ sent[j].origin = "response"
      /\ sent[i].ok
      /\ sent[j].ok
      /\ sent[i].req # sent[j].req
      /\ sent[i].frame.addr = sent[j].frame.addr

\* C6: when the handler returns Some(response), exactly one frame is passed to
\* the socket for that request; it carries the response as the handler
\* returned it and goes to the address the request came from.
C6_ResponseToRequester ==
    \A h \in 1..Len(replies) :
      replies[h].ret # None =>
        /\ Cardinality(ResponsesTo(replies[h].req.id)) = 1
        /\ \A i \in ResponsesTo(replies[h].req.id) :
             /\ sent[i].frame.msg = replies[h].ret[1]
             /\ sent[i].frame.addr = arrived[replies[h].req.id].addr

C6_Witness ==
    /\ \E h \in 1..Len(replies) :
         /\ replies[h].ret # None
         /\ replies[h].req.token = <<>>
         /\ replies[h].req.addr = "p2"
    /\ \E h \in 1..Len(replies) :
         /\ replies[h].ret # None
         /\ replies[h].req.token # <<>>
    /\ \A i \in 1..Len(sent) : sent[i].ok

\* C7: when the handler returns None, nothing is passed to the socket, the
\* channel is left as it was, and the loop goes on selecting.
C7_NoneSendsNothing ==
    [][(Replied /\ Last(replies').ret = None) =>
          /\ sent' = sent
          /\ receiver' = receiver
          /\ pc' = "select"
          /\ result' = result]_vars

C7_Witness ==
    /\ \E h \in 1..Len(replies) :
         /\ replies[h].ret = None
         /\ ResponsesTo(replies[h].req.id) = {}
    /\ receiver # <<>>
    /\ pc = "select"

\* C8: a failing socket send, of a channel item or of a response, makes run
\* return the error; once run has returned nothing more is received,
\* dispatched or sent (until run is called again).
C8_SendErrorEndsRun ==
    [][/\ (SendCalled /\ ~Last(sent').ok) =>
            (pc' = "returned" /\ result' = "Err")
       /\ (pc = "returned" /\ pc' = "returned") =>
            /\ sent' = sent
            /\ received' = received
            /\ invoked' = invoked
            /\ receiver' = receiver]_vars

C8_Witness ==
    /\ pc = "returned"
    /\ result = "Err"
    /\ receiver # <<>>
    /\ socket_in # <<>>
    /\ \E i \in 1..Len(sent) : sent[i].origin = "response" /\ ~sent[i].ok

\* C9 as stated: an I/O error of the receive makes run return the error.
C9_RecvErrorEndsRun ==
    [][(Erred /\ Last(errors').kind = "ioerr") =>
          (pc' = "returned" /\ result' = "Err")]_vars

\* C9 amended: an I/O error of the receive is logged and run goes on
\* selecting; it does not return.
C9_RecvErrorLogged ==
    [][(Erred /\ Last(errors').kind = "ioerr") =>
          /\ pc' = "select"
          /\ result' = "none"
          /\ sent' = sent
          /\ receiver' = receiver]_vars

C9_Witness ==
    \E e \in 1..Len(errors), r \in 1..Len(received) :
      /\ errors[e].kind = "ioerr"
      /\ received[r].id > errors[e].id

\* C10: a datagram the codec fails to decode is skipped: it is not given to
\* the observer filter or the handler and nothing is sent for it; it does not
\* end run (run returns only after a failed send or, stopped, through the
\* complete arm); and every decoded datagram
\* the stream takes, also after a malformed one, is dispatched.
C10_MalformedSkipped ==
    /\ \A ev \in Consumed :
         IF ev.kind = "ok"
         THEN \E i \in 1..Len(filtered) : filtered[i].req = RequestOf(ev)
         ELSE /\ \A i \in 1..Len(filtered) : filtered[i].req.id # ev.id
              /\ \A i \in 1..Len(invoked) : invoked[i].id # ev.id
              /\ ResponsesTo(ev.id) = {}
              /\ \E i \in 1..Len(errors) : errors[i] = ev
    /\ pc = "returned" =>
         \/ sent # <<>> /\ ~Last(sent).ok /\ result = "Err"
         \/ is_terminated /\ result = "Ok"

C10_Witness ==
    /\ \E e \in 1..Len(errors), r \in 1..Len(filtered) :
         /\ errors[e].kind = "malformed"
         /\ filtered[r].req.id > errors[e].id
    /\ pc = "select"

\* ------------------------------------------- stopping and the complete arm
\* The frames of sent that came from the channel carry item n.
SentItems == {sent[i].frame.msg.n : i \in {j \in 1..Len(sent) : sent[j].origin = "queue"}}

QueuedItems == {receiver[k].msg.n : k \in 1..Len(receiver)}

C16_InboundMayOvertake ==
    (ServerArm /\ receiver # <<>> /\ socket_in # <<>>
       /\ Head(socket_in).kind = "ok") => ENABLED Received

\* C16 amended: the server stream prioritizes outbound over inbound: poll_next
\* polls the channel first, so a datagram (or a receive error) is taken from
\* the socket only when the channel is empty, and with an item on the channel
\* and a datagram ready the stream yields the queued item.
C16_OutboundFirst ==
    [][(Len(received') > Len(received) \/ Erred) => receiver = <<>>]_vars

C16_Witness ==
    /\ ServerArm
    /\ receiver # <<>>
    /\ socket_in # <<>>
    /\ Head(socket_in).kind = "ok"
    /\ ~ENABLED Received
    /\ ENABLED NeedSend

\* C17: when the observer filter consumes a request, the handler is not called
\* for it, dispatch_msg passes nothing to the socket, the only new outbound
\* items are those the observer put on the channel, and the loop goes on.
C17_ConsumedNotDispatched ==
    [][(Len(filtered') > Len(filtered) /\ ~Last(filtered').admit) =>
          /\ invoked' = invoked
          /\ pending' = pending
          /\ sent' = sent
          /\ pc' = "select"
          /\ result' = result
          /\ Len(receiver') - Len(receiver) = Len(put') - Len(put)]_vars

C17_Witness ==
    /\ \E i \in 1..Len(filtered) :
         /\ ~filtered[i].admit
         /\ ResponsesTo(filtered[i].req.id) = {}
         /\ \A j \in 1..Len(invoked) : invoked[j].id # filtered[i].req.id
    /\ \E i \in 1..Len(sent) :
         /\ sent[i].origin = "queue"
         /\ sent[i].frame.addr = "p1"
    /\ pc = "select"

\* C18: every frame passed to the socket is an item that was put on the
\* channel, sent to the address stored with it, or the response the handler
\* returned for a received request, sent to that request's peer; and every
\* item is taken from the channel at most once, also when its send fails.
C18_NothingFabricated ==
    /\ \A i \in 1..Len(sent) :
         IF sent[i].origin = "queue"
         THEN \E n \in 1..Len(put) : /\ put[n].msg.n = n
                                     /\ sent[i].frame = put[n]
         ELSE \E h \in 1..Len(replies) :
                /\ replies[h].ret # None
                /\ replies[h].req.id = sent[i].req
                /\ sent[i].frame = [msg |-> replies[h].ret[1],
                                    addr |-> arrived[sent[i].req].addr]
    /\ \A n \in 1..Len(put) :
         Cardinality({i \in 1..Len(sent) :
                        sent[i].origin = "queue" /\ sent[i].frame.msg.n = n})
           + Cardinality({k \in 1..Len(receiver) : receiver[k].msg.n = n}) = 1

C18_Witness ==
    /\ \E i \in 1..Len(sent) : sent[i].origin = "queue" /\ ~sent[i].ok
    /\ \E i \in 1..Len(sent) : sent[i].origin = "queue" /\ sent[i].ok
    /\ \E i \in 1..Len(sent) : sent[i].origin = "response" /\ sent[i].ok
    /\ pc = "select"

\* C19: while a handler call is pending the loop takes no other step: nothing
\* is taken from the channel or passed to the socket, the observer's filter
\* and timer handler do not run; the next thing the loop does is complete
\* that handler call.
C19_NothingOverlapsHandler ==
    [][pc = "handler" =>
          /\ receiver' = receiver
          /\ put' = put
          /\ filtered' = filtered
          /\ received' = received
          /\ errors' = errors
          /\ sent' # sent => (Replied /\ Last(sent').origin = "response")]_vars

C19_Witness ==
    /\ pc = "handler"
    /\ receiver # <<>>
    /\ socket_in # <<>>
    /\ ~obs_terminated
    /\ enqueued < MaxEnqueued

\* C20: run returns Ok(()) only through the complete arm, with both the
\* server stream and the observer stream terminated; while the server is not
\* stopped run returns only Err, after a failed send; and a stopped server
\* whose observer is live does not make run return.
C20_OkOnlyWhenAllTerminated ==
    [][(pc # "returned" /\ pc' = "returned") =>
          IF is_terminated /\ obs_terminated /\ ~SendCalled
          THEN result' = "Ok"
          ELSE /\ result' = "Err"
               /\ SendCalled
               /\ ~Last(sent').ok]_vars

C20_Witness ==
    /\ pc = "returned"
    /\ result = "Ok"
    /\ is_terminated
    /\ obs_terminated
    /\ \E i \in 1..Len(sent) : ~sent[i].ok

\* ------------------------------------------------------ multicast claims
Called(op) == mc_calls'.count = mc_calls.count + 1 /\ mc_calls'.last.op = op

\* C13: for a segment s in 0..15, enable_all_coap(s) requests exactly one
\* membership: 224.0.1.187 on a socket bound to IPv4 (through the bound
\* address), ff0s::fd on a socket bound to IPv6 (interface 0); the group is
\* joined when the socket accepts it, and the bound address and the state of
\* the server's loop are left as they were.
C13_AllCoapGroup ==
    [][(Called("enable_all_coap") /\ mc_calls'.last.segment \in 0..15) =>
          LET s == mc_calls'.last.segment
              expected ==
                IF local_addr.fam = "V4"
                THEN [group |-> [fam |-> "V4", ip |-> <<224, 0, 1, 187>>],
                      iface |-> local_addr.ip]
                ELSE [group |-> [fam |-> "V6",
                                 ip |-> <<65280 + s, 0, 0, 0, 0, 0, 0, 253>>],
                      iface |-> <<0>>]
          IN /\ mc_calls'.last.requested = {expected}
             /\ memberships' = IF mc_calls'.last.failed
                               THEN memberships
                               ELSE memberships \cup {expected}
             /\ UNCHANGED <<loopvars, local_addr>>]_vars

C13_Witness ==
    /\ mc_calls.last.op = "enable_all_coap"
    /\ mc_calls.last.segment = 15
    /\ mc_calls.last.outcome = "ok"
    /\ local_addr.fam = "V6"
    /\ Cardinality(memberships) = 2

\* C14: join_multicast with a multicast address and a segment in 0..15 joins
\* the group when its family is that of the bound address (IPv4 through the
\* bound address, IPv6 with interface 0); for a group of the other family it
\* requests nothing, leaves the memberships unchanged and returns normally.
C14_JoinOnlySameFamily ==
    [][(/\ Called("join_multicast")
        /\ mc_calls'.last.segment \in 0..15
        /\ IsMulticast(mc_calls'.last.addr)) =>
          LET g == mc_calls'.last.addr
          IN IF g.fam = local_addr.fam
             THEN /\ mc_calls'.last.requested =
                       {[group |-> g,
                         iface |-> IF g.fam = "V4" THEN local_addr.ip ELSE <<0>>]}
                  /\ ~mc_calls'.last.failed =>
                       memberships' = memberships \cup mc_calls'.last.requested
             ELSE /\ mc_calls'.last.requested = {}
                  /\ memberships' = memberships
                  /\ mc_calls'.last.outcome = "ok"]_vars

C14_Witness ==
    /\ mc_calls.last.op = "join_multicast"
    /\ mc_calls.last.addr.fam = "V6"
    /\ IsMulticast(mc_calls.last.addr)
    /\ mc_calls.last.segment = 15
    /\ local_addr.fam = "V4"
    /\ mc_calls.last.outcome = "ok"
    /\ memberships # {}

\* C15: a join the socket refuses is not swallowed: the call does not return
\* normally (the unwrap panics), and a call that returned normally after
\* requesting a group has joined it.
C15_JoinFailureSurfaced ==
    /\ mc_calls.last.failed => mc_calls.last.outcome = "panic"
    /\ mc_calls.last.outcome = "ok" => mc_calls.last.requested \subseteq memberships

C15_Witness ==
    /\ mc_calls.last.failed
    /\ mc_calls.last.op = "enable_all_coap"
    /\ mc_calls.count = 2
    /\ memberships # {}

\* ------------------------------------------------------------- liveness
\* The scheduling the loop gives: select! polls a ready arm again and again
\* and picks among the ready arms at random, so a queued item that stays
\* ready is eventually taken; every handler call completes (the proviso of
\* C12).
FairSpec == Spec /\ WF_vars(NeedSend) /\ WF_vars(HandlerComplete)

EmittedItems ==
    {sent[i].frame.msg.n :
       i \in {j \in 1..Len(sent) : sent[j].origin = "queue" /\ sent[j].ok}}

\* C12: every item put on the outbound queue is eventually emitted on the
\* socket, unless a send fails or the server is stopped; inbound datagrams and
\* timer firings do not starve the queue.
C12_QueuedEventuallyEmitted ==
    \A n \in 1..MaxEnqueued :
      (n \in QueuedItems) ~> (n \in EmittedItems \/ Failures > 0 \/ is_terminated)

C12_Witness ==
    /\ Cardinality(EmittedItems) >= 2
    /\ Failures = 0
    /\ ~is_terminated
    /\ Len(filtered) >= 2
    /\ receiver = <<>>

====
